---- MODULE Spec2Model ----
(***************************************************************************)
(* Model of package nice (nice.go): Tackle builds a Handler from a list    *)
(* of targets, and a deferred Handler.With recovers the in-flight panic of *)
(* its scope, matches it against the Handler and either calls the callback *)
(* or panics again with the same artefact.                                 *)
(*                                                                         *)
(* Go values are records [type, ref, text]: the dynamic type, what ==      *)
(* compares for that type (the address of a pointer, the content of a      *)
(* string or an int) and what Error() or %v shows.                         *)
(***************************************************************************)
EXTENDS Integers, Sequences, FiniteSets, TLC

\* stack and panicking are those of the goroutine that is running; sched
\* holds which goroutine that is and the stack and panic of the other one.
VARIABLES stack, frames, atts, panicking, sched

vars == <<stack, frames, atts, panicking, sched>>

----------------------------------------------------------------------------
(* Bounds *)

\* Longest list of targets passed to one Tackle call (Spec).
MaxTargets == 3

\* Most attachments deferred in one run (SpecStack).
MaxAttach == 2

\* Most function scopes entered in one run (SpecStack).
MaxFrames == 2

----------------------------------------------------------------------------
(* Go values *)

GoValue(type, ref, text) == [type |-> type, ref |-> ref, text |-> text]

\* The nil interface value: what recover() returns when nothing is in flight.
Nil == GoValue("nil", "nil", "nil")

\* Dynamic types that have an Error() string method.
ErrorImpl == {"*errors.errorString", "*ValidationError", "ErrList",
              "runtime.errorString"}

\* Dynamic types Go cannot compare with == (slices, and structs holding them).
Uncomparable == {"ErrList", "[]string"}

\* reflect.TypeFor[T](): the one *rtype describing T.
TypeFor(T) == GoValue("*reflect.rtype", T, T)

\* Mutant of TypeOf: types with the same underlying struct share a descriptor.
TypeOfStructural(v) ==
    IF v.type \in {"ArtefactA", "ArtefactB"} THEN TypeFor("ArtefactA")
    ELSE TypeFor(v.type)

\* reflect.TypeOf(v): the descriptor of v's dynamic type.
TypeOf(v) == TypeFor(v.type)

\* typeOfError := reflect.TypeFor[error]()
typeOfError == TypeFor("error")

\* t.(error): the dynamic type implements error.
IsError(v) == v.type \in ErrorImpl

\* t.(reflect.Type): only *reflect.rtype implements reflect.Type.
IsType(v) == v.type = "*reflect.rtype"

\* customErrorExpected := errors.New("expected error")
ErrExpected == GoValue("*errors.errorString", "0xc000010", "expected error")
\* another errors.New with the same text: a different pointer
ErrTwin == GoValue("*errors.errorString", "0xc000020", "expected error")
\* &ValidationError{Field: "email", Message: "required"}
ErrValidation == GoValue("*ValidationError", "0xc000030", "validation error")
\* type ErrList []string with an Error() method: an error that == cannot compare
ErrListA == GoValue("ErrList", "[a]", "a")
ErrListB == GoValue("ErrList", "[b]", "b")
\* panic("error message string")
StrMsg == GoValue("string", "error message string", "error message string")
\* panic(7)
Int7 == GoValue("int", "7", "7")
\* two struct types with the same fields and the same content
ArtefactA == GoValue("ArtefactA", "{m}", "{m}")
ArtefactB == GoValue("ArtefactB", "{m}", "{m}")
\* a non-error artefact of a type == cannot compare
StrSlice == GoValue("[]string", "[x]", "[x]")
\* the runtime.Error raised by == on two values of one uncomparable type
RuntimeErr == GoValue("runtime.errorString", "comparing uncomparable type",
                      "runtime error: comparing uncomparable type")

ErrorValues == {ErrExpected, ErrTwin, ErrValidation, ErrListA, ErrListB}
OtherValues == {StrMsg, Int7, ArtefactA, ArtefactB, StrSlice}

\* What a scope may panic with. panic(nil) reaches recover() as a
\* *runtime.PanicNilError, never as nil, so Nil is no payload.
Payloads == ErrorValues \cup OtherValues

TypeTargets == {typeOfError, TypeFor("string"), TypeFor("*ValidationError"),
                TypeFor("ArtefactA")}
ValueTargets == {ErrExpected, ErrTwin, ErrListA}
\* targets that are neither an error nor a reflect.Type
OtherTargets == {Nil, StrMsg}

Targets == TypeTargets \cup ValueTargets \cup OtherTargets

RECURSIVE SeqsUpTo(_, _)
SeqsUpTo(S, n) ==
    IF n = 0 THEN {<<>>}
    ELSE LET shorter == SeqsUpTo(S, n - 1)
         IN  shorter \cup {Append(s, x) : s \in {t \in shorter : Len(t) = n - 1}, x \in S}

\* The target lists of Spec: every list of up to MaxTargets targets.
TargetLists == SeqsUpTo(Targets, MaxTargets)

\* The registrations of SpecStack: those of the tests and the README, and
\* one of an error value that == cannot compare.
StackTargetLists ==
    { <<typeOfError>>,
      <<TypeFor("string")>>,
      <<ErrTwin>>,
      <<ErrExpected, TypeFor("*ValidationError"), StrMsg>>,
      <<ErrListA>> }

\* What SpecStack's scopes panic with.
StackPayloads == {ErrExpected, ErrListA, ErrListB, StrMsg}

\* The callbacks: one that returns, one that panics with an artefact of its own.
NoRaise == [raises |-> Nil]
Callbacks == {NoRaise, [raises |-> ErrTwin]}

----------------------------------------------------------------------------
(* nice.go *)

\* a == b on two interface values: false for different dynamic types, a
\* run-time panic for one uncomparable dynamic type, else the values' ==.
GoEq(a, b) ==
    IF a.type # b.type THEN "false"
    ELSE IF a.type \in Uncomparable THEN "panic"
    ELSE IF a.ref = b.ref THEN "true" ELSE "false"

\* slices.Contains(s, v): v == s[i] for i = 1, 2, ... up to the first equal one.
RECURSIVE ContainsFrom(_, _, _)
ContainsFrom(s, v, i) ==
    IF i > Len(s) THEN "false"
    ELSE LET c == GoEq(v, s[i])
         IN  IF c = "false" THEN ContainsFrom(s, v, i + 1) ELSE c

\* A Go slice: nil or not, and its elements.
\* make([]T, 0)
MakeSlice == [isNil |-> FALSE, elems |-> <<>>]

\* append(s, x)
AppendSlice(s, x) == [isNil |-> FALSE, elems |-> Append(s.elems, x)]

Contains(s, v) == ContainsFrom(s.elems, v, 1)

\* type Handler struct
Handler(artefactTypes, errorTypes) ==
    [artefactTypes |-> artefactTypes, errorTypes |-> errorTypes]

\* the loop of Tackle over targets[i..]
RECURSIVE TackleLoop(_, _, _, _)
TackleLoop(targets, i, artefactTypes, errorTypes) ==
    IF i > Len(targets) THEN Handler(artefactTypes, errorTypes)
    ELSE LET t == targets[i]
         IN  IF IsError(t)
             THEN TackleLoop(targets, i + 1, artefactTypes, AppendSlice(errorTypes, t))
             ELSE IF IsType(t)
             THEN TackleLoop(targets, i + 1, AppendSlice(artefactTypes, t), errorTypes)
             ELSE TackleLoop(targets, i + 1, artefactTypes, errorTypes)

\* var s []T: the nil slice
NilSlice == [isNil |-> TRUE, elems |-> <<>>]

\* Mutant of Tackle: the two slices are declared with var, not made.
TackleNilSlices(targets) == TackleLoop(targets, 1, NilSlice, NilSlice)

\* func Tackle(targets ...any) Handler
Tackle(targets) == TackleLoop(targets, 1, MakeSlice, MakeSlice)

\* An in-flight panic: its artefact and where the artefact was first raised
\* ("body", "callback" or "runtime"); payload Nil when nothing is in flight.
Signal(payload, origin) == [payload |-> payload, origin |-> origin]
NoSignal == Signal(Nil, "none")

\* Mutant of Handled: what the callback raises is dropped and the recovered
\* artefact is raised in its place.
HandledRaisesRecovered(handle, lastMsg) ==
    [state |-> "Absorbed", arg |-> lastMsg, calls |-> 1,
     after |-> IF handle.raises = Nil THEN NoSignal
               ELSE Signal(lastMsg, "callback")]

\* handle(lastMsg); return: the callback runs, and With returns unless the
\* callback itself panics.
Handled(handle, lastMsg) ==
    [state |-> "Absorbed", arg |-> lastMsg, calls |-> 1,
     after |-> IF handle.raises = Nil THEN NoSignal
               ELSE Signal(handle.raises, "callback")]

\* panic(lastMsg): the fallthrough.
Fallthrough(sig) ==
    [state |-> "Propagated", arg |-> Nil, calls |-> 0,
     after |-> Signal(sig.payload, sig.origin)]

\* == panicked inside slices.Contains: With ends with the runtime's error.
Crashed ==
    [state |-> "Crashed", arg |-> Nil, calls |-> 0,
     after |-> Signal(RuntimeErr, "runtime")]

\* Mutant of With: the registered error values are compared before the
\* generic error type is looked for.
WithValuesFirst(h, handle, sig) ==
    LET lastMsg == sig.payload
    IN  IF lastMsg = Nil
        THEN [state |-> "Idle", arg |-> Nil, calls |-> 0, after |-> NoSignal]
        ELSE IF IsError(lastMsg)
        THEN LET c == Contains(h.errorTypes, lastMsg)
             IN  IF c = "panic" THEN Crashed
                 ELSE IF c = "true" THEN Handled(handle, lastMsg)
                 ELSE IF Contains(h.artefactTypes, typeOfError) = "true"
                 THEN Handled(handle, lastMsg)
                 ELSE Fallthrough(sig)
        ELSE IF Contains(h.artefactTypes, TypeOf(lastMsg)) = "true"
             THEN Handled(handle, lastMsg)
             ELSE Fallthrough(sig)

\* panic(nil) is in flight as a *runtime.PanicNilError.
PanicNilError == GoValue("*runtime.PanicNilError", "0xc000040",
                         "panic called with nil argument")

\* Mutant of With: the result of recover() is not compared with nil, so a
\* normal exit reaches the type switch and, unmatched, panic(nil).
WithNoNilCheck(h, handle, sig) ==
    LET lastMsg == sig.payload
    IN  IF lastMsg = Nil /\ Contains(h.artefactTypes, TypeOf(lastMsg)) # "true"
        THEN [state |-> "Propagated", arg |-> Nil, calls |-> 0,
              after |-> Signal(PanicNilError, "runtime")]
        ELSE IF IsError(lastMsg)
        THEN IF Contains(h.artefactTypes, typeOfError) = "true"
             THEN Handled(handle, lastMsg)
             ELSE LET c == Contains(h.errorTypes, lastMsg)
                  IN  IF c = "panic" THEN Crashed
                      ELSE IF c = "true" THEN Handled(handle, lastMsg)
                      ELSE Fallthrough(sig)
        ELSE IF Contains(h.artefactTypes, TypeOf(lastMsg)) = "true"
             THEN Handled(handle, lastMsg)
             ELSE Fallthrough(sig)

\* Mutant of With: the return after handle(lastMsg) is missing, so a matched
\* artefact is handled and then raised again by the fallthrough.
WithNoReturn(h, handle, sig) ==
    LET lastMsg == sig.payload
        handledThenRaised ==
            [state |-> "Absorbed", arg |-> lastMsg, calls |-> 1,
             after |-> IF handle.raises = Nil THEN Signal(sig.payload, sig.origin)
                       ELSE Signal(handle.raises, "callback")]
    IN  IF lastMsg = Nil
        THEN [state |-> "Idle", arg |-> Nil, calls |-> 0, after |-> NoSignal]
        ELSE IF IsError(lastMsg)
        THEN IF Contains(h.artefactTypes, typeOfError) = "true"
             THEN handledThenRaised
             ELSE LET c == Contains(h.errorTypes, lastMsg)
                  IN  IF c = "panic" THEN Crashed
                      ELSE IF c = "true" THEN handledThenRaised
                      ELSE Fallthrough(sig)
        ELSE IF Contains(h.artefactTypes, TypeOf(lastMsg)) = "true"
             THEN handledThenRaised
             ELSE Fallthrough(sig)

\* func (h Handler) With(handle func(artefact any)), run as a deferred call
\* while sig is in flight: how the attachment ends, what the callback got,
\* and what is in flight when With is left.
With(h, handle, sig) ==
    LET lastMsg == sig.payload
    IN  IF lastMsg = Nil
        THEN [state |-> "Idle", arg |-> Nil, calls |-> 0, after |-> NoSignal]
        ELSE IF IsError(lastMsg)
        THEN IF Contains(h.artefactTypes, typeOfError) = "true"
             THEN Handled(handle, lastMsg)
             ELSE LET c == Contains(h.errorTypes, lastMsg)
                  IN  IF c = "panic" THEN Crashed
                      ELSE IF c = "true" THEN Handled(handle, lastMsg)
                      ELSE Fallthrough(sig)
        ELSE IF Contains(h.artefactTypes, TypeOf(lastMsg)) = "true"
             THEN Handled(handle, lastMsg)
             ELSE Fallthrough(sig)

----------------------------------------------------------------------------
(* The scopes that use the package: defer, panic, return, unwind *)

Top == stack[Len(stack)]

\* The attachments of frame f that have not run yet.
Armed(f) == {i \in 1..Len(atts) : atts[i].frame = f /\ atts[i].state = "Armed"}

Max(S) == CHOOSE x \in S : \A y \in S : y <= x

\* Deferred calls run last in, first out.
NextDeferred(f) == Max(Armed(f))

\* A scope entered on goroutine g from the scope parent (0: from none).
NewFrame(g, parent) ==
    [pc |-> "body", raised |-> Nil, returned |-> FALSE, emerged |-> NoSignal,
     g |-> g, parent |-> parent]

Init ==
    /\ stack = <<1>>
    /\ frames = <<NewFrame(1, 0)>>
    /\ atts = <<>>
    /\ panicking = NoSignal
    /\ sched = [running |-> 1, spawned |-> FALSE,
                parked |-> [stack |-> <<>>, panicking |-> NoSignal]]

\* defer nice.Tackle(targets...).With(handle)
Register(targets, handle) ==
    /\ stack # <<>>
    /\ frames[Top].pc = "body"
    /\ atts' = Append(atts, [frame |-> Top, targets |-> targets,
                             h |-> Tackle(targets), handle |-> handle,
                             state |-> "Armed", got |-> NoSignal,
                             arg |-> Nil, calls |-> 0, after |-> NoSignal])
    /\ UNCHANGED <<stack, frames, panicking, sched>>

\* The one attachment of the scope.
Attach ==
    /\ atts = <<>>
    /\ \E targets \in TargetLists, handle \in Callbacks : Register(targets, handle)

\* One more attachment in the scope.
Defer ==
    /\ Len(atts) < MaxAttach
    /\ \E targets \in StackTargetLists, handle \in Callbacks : Register(targets, handle)

\* The scope calls a function, which gets a scope of its own.
Call ==
    /\ stack # <<>>
    /\ frames[Top].pc = "body"
    /\ Len(frames) < MaxFrames
    /\ frames' = Append(frames, NewFrame(sched.running, Top))
    /\ stack' = Append(stack, Len(frames) + 1)
    /\ UNCHANGED <<atts, panicking, sched>>

\* panic(p) in the body of the scope: nothing after it runs.
Raise(payloads) ==
    /\ stack # <<>>
    /\ frames[Top].pc = "body"
    /\ \E p \in payloads :
          /\ frames' = [frames EXCEPT ![Top].pc = "exit", ![Top].raised = p]
          /\ panicking' = Signal(p, "body")
    /\ UNCHANGED <<stack, atts, sched>>

Panic == Raise(Payloads)

PanicStack == Raise(StackPayloads)

\* The body of the scope ends without a panic.
Return ==
    /\ stack # <<>>
    /\ frames[Top].pc = "body"
    /\ frames' = [frames EXCEPT ![Top].pc = "exit", ![Top].returned = TRUE]
    /\ UNCHANGED <<stack, atts, panicking, sched>>

\* The scope is left: its latest deferred With that has not run yet runs.
RunDeferred ==
    /\ stack # <<>>
    /\ frames[Top].pc = "exit"
    /\ Armed(Top) # {}
    /\ LET i == NextDeferred(Top)
           r == With(atts[i].h, atts[i].handle, panicking)
       IN  /\ atts' = [atts EXCEPT ![i].state = r.state, ![i].got = panicking,
                                   ![i].arg = r.arg, ![i].calls = @ + r.calls,
                                   ![i].after = r.after]
           /\ panicking' = r.after
    /\ UNCHANGED <<stack, frames, sched>>

\* All deferred calls of the scope have run: the scope returns to its caller,
\* or, with a panic still in flight, the caller starts to unwind.
Exit ==
    /\ stack # <<>>
    /\ frames[Top].pc = "exit"
    /\ Armed(Top) = {}
    /\ stack' = SubSeq(stack, 1, Len(stack) - 1)
    /\ frames' = [f \in 1..Len(frames) |->
                    IF f = Top
                    THEN [frames[f] EXCEPT !.pc = "done", !.emerged = panicking]
                    ELSE IF Len(stack) > 1 /\ f = stack[Len(stack) - 1]
                            /\ panicking.payload # Nil
                    THEN [frames[f] EXCEPT !.pc = "exit"]
                    ELSE frames[f]]
    /\ UNCHANGED <<atts, panicking, sched>>

\* The process is over: the main goroutine has left its last scope, or a
\* goroutine has left its last scope with a panic in flight.
ProcessEnded ==
    stack = <<>> /\ (sched.running = 1 \/ panicking.payload # Nil)

\* go f(): a second goroutine, with a stack and a panic state of its own.
Spawn ==
    /\ stack # <<>>
    /\ frames[Top].pc = "body"
    /\ ~sched.spawned
    /\ Len(frames) < MaxFrames
    /\ frames' = Append(frames, NewFrame(2, 0))
    /\ sched' = [running |-> sched.running, spawned |-> TRUE,
                 parked |-> [stack |-> <<Len(frames) + 1>>, panicking |-> NoSignal]]
    /\ UNCHANGED <<stack, atts, panicking>>

\* Mutant of Switch: the panic in flight is one per process, not one per
\* goroutine, so recover() sees what the other goroutine raised.
SwitchSharedPanic ==
    /\ sched.spawned
    /\ ~ProcessEnded
    /\ sched.parked.stack # <<>>
    /\ stack' = sched.parked.stack
    /\ sched' = [running |-> 3 - sched.running, spawned |-> TRUE,
                 parked |-> [stack |-> stack, panicking |-> panicking]]
    /\ UNCHANGED <<frames, atts, panicking>>

\* The scheduler runs the other goroutine: recover() and the deferred calls
\* there see that goroutine's stack and that goroutine's panic only.
Switch ==
    /\ sched.spawned
    /\ ~ProcessEnded
    /\ sched.parked.stack # <<>>
    /\ stack' = sched.parked.stack
    /\ panicking' = sched.parked.panicking
    /\ sched' = [running |-> 3 - sched.running, spawned |-> TRUE,
                 parked |-> [stack |-> stack, panicking |-> panicking]]
    /\ UNCHANGED <<frames, atts>>

\* One scope with one attachment, over every list of targets.
Next == Attach \/ Panic \/ Return \/ RunDeferred \/ Exit

Spec == Init /\ [][Next]_vars

\* Nested scopes with several attachments.
NextStack == Defer \/ Call \/ PanicStack \/ Return \/ RunDeferred \/ Exit

SpecStack == Init /\ [][NextStack]_vars

\* The registrations and the panics of the scopes that run on two goroutines.
GoTargetLists == {<<typeOfError>>, <<TypeFor("string")>>}
GoPayloads == {ErrExpected, StrMsg}

DeferGo ==
    /\ Len(atts) < MaxAttach
    /\ \E targets \in GoTargetLists, handle \in Callbacks : Register(targets, handle)

PanicGo == Raise(GoPayloads)

\* Scopes on two goroutines, interleaved in every way.
NextGo ==
    DeferGo \/ Call \/ Spawn \/ Switch \/ PanicGo \/ Return \/ RunDeferred \/ Exit

SpecGo == Init /\ [][NextGo]_vars

----------------------------------------------------------------------------
(* Properties *)

\* The attachments whose With has run.
Ran == {i \in 1..Len(atts) : atts[i].state # "Armed"}

Elems(slice) == {slice.elems[k] : k \in 1..Len(slice.elems)}

\* What is in flight after a With that called its callback: nothing, or
\* what the callback itself raised.
AfterCallback(a) ==
    IF a.handle.raises = Nil THEN NoSignal ELSE Signal(a.handle.raises, "callback")

\* With called the callback with the artefact it recovered and did not
\* raise that artefact again.
Absorbs(a) ==
    /\ a.calls = 1
    /\ a.arg = a.got.payload
    /\ a.after = AfterCallback(a)

\* With raised the artefact it recovered again, unchanged, and left the
\* callback alone.
Propagates(a) ==
    /\ a.calls = 0
    /\ a.after = a.got

NeitherKind(t) == ~IsError(t) /\ ~IsType(t)

\* C1: the Handler Tackle returns holds, as its value targets, exactly the
\* targets that are error values and, as its type targets, exactly the
\* targets that are type descriptors, each in the order given; a target
\* that is neither is in neither list; and neither list is nil.
C1_TacklePartitions ==
    \A i \in 1..Len(atts) :
        LET a == atts[i]
        IN  /\ a.h.errorTypes.elems = SelectSeq(a.targets, IsError)
            /\ a.h.artefactTypes.elems = SelectSeq(a.targets, IsType)
            /\ \A k \in 1..Len(a.targets) :
                  NeitherKind(a.targets[k]) =>
                      a.targets[k] \notin Elems(a.h.errorTypes) \cup Elems(a.h.artefactTypes)
            /\ ~a.h.errorTypes.isNil
            /\ ~a.h.artefactTypes.isNil

\* Tackle(ErrTwin, "error message string", ErrExpected): two value targets
\* in the order given, the string dropped, an empty list of type targets.
C1_Witness ==
    \E i \in 1..Len(atts) :
        /\ atts[i].targets = <<ErrTwin, StrMsg, ErrExpected>>
        /\ atts[i].h.errorTypes.elems = <<ErrTwin, ErrExpected>>
        /\ atts[i].h.artefactTypes = MakeSlice

\* C3: a Handler whose type targets hold the generic error type absorbs
\* every raised error and calls the callback with it, whatever value
\* targets it also holds: the value targets are not compared at all.
C3_GenericErrorFirst ==
    \A i \in Ran :
        LET a == atts[i]
        IN  (/\ a.got.payload # Nil
             /\ IsError(a.got.payload)
             /\ typeOfError \in Elems(a.h.artefactTypes))
            => (a.state = "Absorbed" /\ Absorbs(a))

\* Tackle(ErrListA, typeOfError) absorbs a raised ErrListA: comparing it
\* with the value target first would have ended With in a run-time panic.
C3_Witness ==
    \E i \in Ran :
        /\ atts[i].targets = <<ErrListA, typeOfError>>
        /\ atts[i].got = Signal(ErrListA, "body")
        /\ atts[i].arg = ErrListA
        /\ atts[i].after = NoSignal

\* C4: a raised artefact that is no error is absorbed, and the callback
\* called with it, exactly when the descriptor of its dynamic type is
\* among the type targets; otherwise it is raised again and the callback
\* is not called. The value targets do not enter.
C4_TypeMatching ==
    \A i \in Ran :
        LET a == atts[i]
        IN  (a.got.payload # Nil /\ ~IsError(a.got.payload))
            => IF TypeFor(a.got.payload.type) \in Elems(a.h.artefactTypes)
               THEN a.state = "Absorbed" /\ Absorbs(a)
               ELSE a.state = "Propagated" /\ Propagates(a)

\* Tackle(ErrExpected, TypeFor[ArtefactA]) propagates a raised ArtefactB,
\* a value of another struct type with the same fields.
C4_Witness ==
    \E i \in Ran :
        /\ atts[i].targets = <<ErrExpected, TypeFor("ArtefactA")>>
        /\ atts[i].got = Signal(ArtefactB, "body")
        /\ atts[i].calls = 0
        /\ atts[i].after = Signal(ArtefactB, "body")

\* C7: when the scope ends without a panic, the deferred With returns
\* without calling the callback and without raising anything, whatever
\* the Handler's targets.
C7_NoOpOnNormalExit ==
    \A i \in Ran :
        LET a == atts[i]
        IN  frames[a.frame].returned
            => (a.state = "Idle" /\ a.calls = 0 /\ a.after = NoSignal)

\* A scope with Tackle(typeOfError, ErrExpected, TypeFor[string]) attached
\* has returned normally and the attachment has run.
C7_Witness ==
    \E i \in Ran :
        /\ atts[i].targets = <<typeOfError, ErrExpected, TypeFor("string")>>
        /\ frames[atts[i].frame].returned
        /\ frames[atts[i].frame].pc = "done"
        /\ atts[i].state = "Idle"

\* The Handler is meant to catch p: p is an error and the generic error type
\* or p itself is registered, or p is no error and its type is registered.
Matches(h, p) ==
    IF IsError(p)
    THEN typeOfError \in Elems(h.artefactTypes) \/ p \in Elems(h.errorTypes)
    ELSE TypeFor(p.type) \in Elems(h.artefactTypes)

\* The attachments deferred in frame f, in the order they were deferred.
Of(f) == {i \in 1..Len(atts) : atts[i].frame = f}

\* C2: a Handler registered with error value E and without the generic
\* error type, in a scope that raises E, calls the callback with E and
\* absorbs; in a scope that raises an error value it does not hold, it
\* does not call the callback and the panic goes on.
C2_ExactValue ==
    \A i \in Ran :
        LET a == atts[i]
            p == a.got.payload
        IN  (/\ a.got.origin = "body"
             /\ IsError(p)
             /\ typeOfError \notin Elems(a.h.artefactTypes))
            => IF p \in Elems(a.h.errorTypes)
               THEN a.state = "Absorbed" /\ Absorbs(a)
               ELSE a.calls = 0 /\ a.after.payload # Nil

\* C2 for the raised errors that == can compare.
ExactValueWhenComparable ==
    \A i \in Ran :
        LET a == atts[i]
            p == a.got.payload
        IN  (/\ a.got.origin = "body"
             /\ IsError(p)
             /\ p.type \notin Uncomparable
             /\ typeOfError \notin Elems(a.h.artefactTypes))
            => IF p \in Elems(a.h.errorTypes)
               THEN a.state = "Absorbed" /\ Absorbs(a)
               ELSE a.state = "Propagated" /\ Propagates(a)

\* Tackle(ErrExpected) has propagated ErrTwin, whose Error() is the same.
TwinPropagated ==
    \E i \in Ran :
        /\ atts[i].targets = <<ErrExpected>>
        /\ atts[i].got = Signal(ErrTwin, "body")
        /\ atts[i].got.payload.text = ErrExpected.text
        /\ atts[i].state = "Propagated"

\* C5: a Handler that holds the type descriptor of a custom error type
\* absorbs a raised value of that type and calls the callback with it.
C5_CustomErrorType ==
    \A i \in Ran :
        LET a == atts[i]
            p == a.got.payload
        IN  (/\ p # Nil
             /\ IsError(p)
             /\ TypeFor(p.type) \in Elems(a.h.artefactTypes))
            => (a.state = "Absorbed" /\ Absorbs(a))

\* C6: when a scope raises P and no Handler attached in it is meant to
\* catch P, no callback of the scope is called and the scope is left with
\* P in flight, unchanged.
C6_NoMatchPropagates ==
    \A f \in 1..Len(frames) :
        LET p == frames[f].raised
        IN  (/\ frames[f].pc = "done"
             /\ p # Nil
             /\ \A i \in Of(f) : ~Matches(atts[i].h, p))
            => /\ \A i \in Of(f) : atts[i].calls = 0
               /\ frames[f].emerged = Signal(p, "body")

\* C6 for the raised artefacts that == can compare.
NoMatchPropagatesWhenComparable ==
    \A f \in 1..Len(frames) :
        LET p == frames[f].raised
        IN  (/\ frames[f].pc = "done"
             /\ p # Nil
             /\ p.type \notin Uncomparable
             /\ \A i \in Of(f) : ~Matches(atts[i].h, p))
            => /\ \A i \in Of(f) : atts[i].calls = 0
               /\ frames[f].emerged = Signal(p, "body")

\* b is the latest attachment of its frame that is meant to catch what the
\* frame's body raised, and an earlier one of the frame is meant to as well.
LatestOfSeveral(b) ==
    LET f == atts[b].frame
        p == frames[f].raised
    IN  /\ p # Nil
        /\ Matches(atts[b].h, p)
        /\ \A c \in Of(f) : c > b => ~Matches(atts[c].h, p)
        /\ \E a \in Of(f) : a < b /\ Matches(atts[a].h, p)

\* C8: of the attachments of one scope whose Handlers are meant to catch
\* the raised artefact, the one registered last is tested first: its
\* callback is called with the artefact, and the callback of an earlier
\* one is never called for that raise.
C8_ScopeOrdering ==
    \A b \in Ran :
        LET f == atts[b].frame
            p == frames[f].raised
        IN  LatestOfSeveral(b)
            => /\ atts[b].got = Signal(p, "body")
               /\ Absorbs(atts[b])
               /\ \A a \in Of(f) :
                     a < b => ~(atts[a].calls = 1 /\ atts[a].got.origin = "body")

\* C8 for the raised artefacts that == can compare.
ScopeOrderingWhenComparable ==
    \A b \in Ran :
        LET f == atts[b].frame
            p == frames[f].raised
        IN  (LatestOfSeveral(b) /\ p.type \notin Uncomparable)
            => /\ atts[b].got = Signal(p, "body")
               /\ Absorbs(atts[b])
               /\ \A a \in Of(f) :
                     a < b => ~(atts[a].calls = 1 /\ atts[a].got.origin = "body")

\* Two attachments of one scope both registered for the generic error type:
\* the later one was called with the raised error, the earlier one ran idle.
LaterOneCalled ==
    \E a, b \in Ran :
        /\ a < b
        /\ atts[a].frame = atts[b].frame
        /\ atts[a].targets = <<typeOfError>>
        /\ atts[b].targets = <<typeOfError>>
        /\ atts[b].arg = ErrExpected
        /\ atts[a].state = "Idle"

EndsIdle(a) == a.got = NoSignal /\ a.calls = 0 /\ a.after = NoSignal
EndsAbsorbed(a) == a.got.payload # Nil /\ Absorbs(a)
EndsPropagated(a) == a.got.payload # Nil /\ Propagates(a)

\* C9: an attachment whose With has run has ended in exactly one of Idle
\* (nothing was in flight, callback not called), Absorbed (callback called
\* once with the artefact, which is not raised again) and Propagated
\* (callback not called, artefact raised again); its callback was called at
\* most once, and never together with raising the artefact again.
C9_AttachmentStates ==
    \A i \in Ran :
        LET a == atts[i]
        IN  /\ a.calls <= 1
            /\ EndsIdle(a) \/ EndsAbsorbed(a) \/ EndsPropagated(a)
            /\ ~(EndsAbsorbed(a) /\ EndsPropagated(a))

\* An attachment runs once: after its With has run, nothing about it changes.
AttachmentsRunOnce ==
    [][\A i \in Ran : i \in 1..Len(atts') /\ atts'[i] = atts[i]]_vars

\* The three ways of ending where == never panics.
AttachmentStatesWhenComparable ==
    \A i \in Ran :
        LET a == atts[i]
        IN  a.state # "Crashed"
            => /\ a.calls <= 1
               /\ EndsIdle(a) \/ EndsAbsorbed(a) \/ EndsPropagated(a)
               /\ ~(EndsAbsorbed(a) /\ EndsPropagated(a))

\* C10: whatever the Handler and the raised artefact, With either calls
\* the callback and absorbs, or raises the artefact it recovered again:
\* matching raises nothing of its own.
C10_MatchingNeverFails ==
    \A i \in Ran :
        LET a == atts[i]
        IN  a.got.payload # Nil => (Absorbs(a) \/ Propagates(a))

\* The goroutine an attachment was deferred on.
GoroutineOf(i) == frames[atts[i].frame].g

\* The artefact in flight sig was raised on goroutine g: by the body of a
\* scope of g, or by a With (its callback, or its ==) that ran on g.
RaisedOn(sig, g) ==
    IF sig.origin = "body"
    THEN \E f \in 1..Len(frames) : frames[f].g = g /\ frames[f].raised = sig.payload
    ELSE \E j \in Ran : GoroutineOf(j) = g /\ atts[j].after = sig
                        /\ atts[j].state \in {"Absorbed", "Crashed"}

\* C11: an attachment only ever recovers, and so its callback is only ever
\* called with, an artefact raised on the goroutine the attachment was
\* deferred on; what the other goroutine raises it never absorbs.
C11_ThreadIsolation ==
    \A i \in Ran :
        atts[i].got.payload # Nil => RaisedOn(atts[i].got, GoroutineOf(i))

\* The second goroutine has left its last scope with ErrExpected in flight
\* while Tackle(typeOfError), deferred on the main goroutine, is still armed.
C11_Witness ==
    /\ sched.running = 2
    /\ stack = <<>>
    /\ panicking = Signal(ErrExpected, "body")
    /\ \E i \in 1..Len(atts) :
          /\ GoroutineOf(i) = 1
          /\ atts[i].targets = <<typeOfError>>
          /\ atts[i].state = "Armed"

\* No attachment of frame f deferred at or after c is meant to catch p: c
\* runs before any attachment of the frame that is.
BeforeAnyMatch(f, c, p) ==
    \A d \in Of(f) : d >= c => ~Matches(atts[d].h, p)

\* b is the attachment of frame f deferred last among those meant to catch p.
LatestMatch(f, b, p) ==
    /\ Matches(atts[b].h, p)
    /\ \A d \in Of(f) : d > b => ~Matches(atts[d].h, p)

\* The attachments of the scope whose body raised p, as far as they have
\* run: those deferred after the latest matching one raised p again and
\* left their callbacks alone, the latest matching one was called with p,
\* and no other callback of the scope was called for that raise.
Chained(f, p) ==
    \A c \in Of(f) \cap Ran :
        /\ BeforeAnyMatch(f, c, p)
              => atts[c].got = Signal(p, "body") /\ Propagates(atts[c])
        /\ LatestMatch(f, c, p)
              => atts[c].got = Signal(p, "body") /\ Absorbs(atts[c])
        /\ ~LatestMatch(f, c, p)
              => ~(atts[c].calls = 1 /\ atts[c].got.origin = "body")

\* C12: in a scope that raises P, an attachment that does not match and
\* was registered after every matching one raises P again without calling
\* its callback, so P reaches the attachments in reverse order of
\* registration; the only callback called for P is that of the attachment
\* registered last among the matching ones.
C12_SameScopeChaining ==
    \A f \in 1..Len(frames) :
        frames[f].raised # Nil => Chained(f, frames[f].raised)

\* C12 for the raised artefacts that == can compare.
ChainingWhenComparable ==
    \A f \in 1..Len(frames) :
        (frames[f].raised # Nil /\ frames[f].raised.type \notin Uncomparable)
            => Chained(f, frames[f].raised)

\* Tackle(TypeFor[string]) deferred first and Tackle(typeOfError) second,
\* in a scope that raised a string: the second raised it again, the first
\* was called with it.
StringPassedDown ==
    \E a, b \in Ran :
        /\ a < b
        /\ atts[a].frame = atts[b].frame
        /\ atts[a].targets = <<TypeFor("string")>>
        /\ atts[b].targets = <<typeOfError>>
        /\ atts[b].got = Signal(StrMsg, "body")
        /\ atts[b].state = "Propagated"
        /\ atts[b].calls = 0
        /\ atts[a].got = Signal(StrMsg, "body")
        /\ atts[a].arg = StrMsg

\* The callback of attachment i was called and returned.
HandledAndReturned(i) == atts[i].calls = 1 /\ atts[i].handle.raises = Nil

\* After the callback of an attachment was called and returned, nothing is
\* in flight: the attachments of the scope deferred before it have, once
\* run, found nothing and ended idle, and the scope is left with nothing
\* in flight.
UnwindEnded ==
    \A i \in Ran :
        HandledAndReturned(i)
        => LET f == atts[i].frame
           IN  /\ atts[i].after = NoSignal
               /\ \A e \in Of(f) \cap Ran :
                     e < i => atts[e].state = "Idle" /\ EndsIdle(atts[e])
               /\ frames[f].pc = "done" => frames[f].emerged = NoSignal

\* In a step: a scope whose body has raised runs nothing more of its body
\* (no second raise, no further defer, no further call).
FailFast ==
    \A f \in 1..Len(frames) :
        frames[f].raised # Nil
        => /\ frames'[f].raised = frames[f].raised
           /\ frames'[f].pc # "body"
           /\ \A i \in 1..Len(atts') : atts'[i].frame = f => i <= Len(atts)
           /\ \A c \in 1..Len(frames') : frames'[c].parent = f => c <= Len(frames)

\* In a step: a scope that is left with nothing in flight returns to its
\* caller, which goes on with its body and with nothing in flight, so that
\* its attachments have nothing of that scope to recover.
ReturnsToCaller ==
    \A f \in 1..Len(frames) :
        (/\ frames[f].pc = "exit"
         /\ frames'[f].pc = "done"
         /\ frames'[f].emerged = NoSignal
         /\ frames[f].parent # 0)
        => /\ frames'[frames[f].parent].pc = "body"
           /\ panicking' = NoSignal

\* C13: once a scope has raised P nothing more of its body runs; once an
\* attachment has absorbed P (its callback was called and returned), the
\* attachments of the scope registered before it run with nothing in
\* flight and end idle without calling their callbacks, and the scope
\* returns normally to its caller, whose attachments do not see P.
C13_UnwindEnds ==
    /\ []UnwindEnded
    /\ [][FailFast /\ ReturnsToCaller]_vars

\* In a called scope the later of two attachments, Tackle(typeOfError), was
\* called with ErrExpected and returned, the earlier one ended idle, and
\* the scope has returned to its caller, which is running its body.
C13_Witness ==
    \E a, b \in Ran :
        /\ a < b
        /\ atts[a].frame = atts[b].frame
        /\ frames[atts[b].frame].parent # 0
        /\ atts[b].targets = <<typeOfError>>
        /\ atts[b].arg = ErrExpected
        /\ HandledAndReturned(b)
        /\ atts[a].state = "Idle"
        /\ frames[atts[b].frame].pc = "done"
        /\ frames[atts[b].frame].raised = ErrExpected
        /\ frames[frames[atts[b].frame].parent].pc = "body"
        /\ panicking = NoSignal

\* The callback of attachment i was called and raised.
HandledAndRaised(i) == atts[i].calls = 1 /\ atts[i].handle.raises # Nil

\* The attachment of scope f that runs first in the unwind: the one
\* deferred last.
RunsFirst(f) == IF Of(f) = {} THEN 0 ELSE Max(Of(f))

\* The attachment of the scope of i that runs right after i: the one
\* deferred just before it (0 when there is none).
RunsNext(i) ==
    LET before == {e \in Of(atts[i].frame) : e < i}
    IN  IF before = {} THEN 0 ELSE Max(before)

\* Attachment e, once run, recovered sig and matched its targets against it.
TestedAgainst(e, sig) ==
    e \in Ran
    => /\ atts[e].got = sig
       /\ atts[e].state = With(atts[e].h, atts[e].handle, sig).state

\* C14: when the callback of a matching attachment, called with P, raises
\* Q, With leaves with Q in flight and not P, its re-raise of P is not
\* reached, the attachment of the scope deferred just before it is tested
\* against Q, and when there is none the scope exits with Q, against which
\* the first-run attachment of the calling scope is tested.
C14_CallbackRaises ==
    \A i \in Ran :
        HandledAndRaised(i)
        => LET f == atts[i].frame
               Q == Signal(atts[i].handle.raises, "callback")
           IN  /\ atts[i].after = Q
               /\ atts[i].state = "Absorbed"
               /\ ~Propagates(atts[i])
               /\ RunsNext(i) # 0 => TestedAgainst(RunsNext(i), Q)
               /\ (RunsNext(i) = 0 /\ frames[f].pc = "done")
                  => /\ frames[f].emerged = Q
                     /\ (frames[f].parent # 0 /\ RunsFirst(frames[f].parent) # 0)
                        => TestedAgainst(RunsFirst(frames[f].parent), Q)

\* The later attachment of a scope was called with ErrExpected and its
\* callback raised ErrTwin; the earlier one, Tackle(ErrTwin), recovered
\* ErrTwin and its callback was called with it.
C14_Witness ==
    \E a, b \in Ran :
        /\ a < b
        /\ atts[a].frame = atts[b].frame
        /\ atts[b].arg = ErrExpected
        /\ HandledAndRaised(b)
        /\ atts[b].handle.raises = ErrTwin
        /\ atts[a].targets = <<ErrTwin>>
        /\ atts[a].got = Signal(ErrTwin, "callback")
        /\ atts[a].calls = 1
        /\ atts[a].arg = ErrTwin

\* A called scope's only attachment was called with a string and its
\* callback raised ErrTwin; the scope exited with ErrTwin and the
\* attachment of its caller recovered ErrTwin.
C14_EnclosingWitness ==
    \E a, b \in Ran :
        /\ frames[atts[b].frame].parent = atts[a].frame
        /\ Of(atts[b].frame) = {b}
        /\ atts[b].arg = StrMsg
        /\ HandledAndRaised(b)
        /\ frames[atts[b].frame].emerged = Signal(ErrTwin, "callback")
        /\ atts[a].got = Signal(ErrTwin, "callback")

====
